---- MODULE Spec2Model ----
\* A model of nse_rss.js: the scorer (cleanAndScore), the per-symbol pipeline
\* (fetchForSymbol, saveToDb) and the scheduler (main with p-limit).
\* Strings are sequences of one-character strings, so that includes(),
\* toUpperCase() and split(" ") are computed character by character.
\* The empty sequence stands for a missing, null or empty string: all are
\* falsy in JavaScript. Time is counted in days since the epoch.
EXTENDS Integers, Sequences, FiniteSets, TLC

VARIABLES csv, mainPc, db, list, pipes, activeCount, queue, store,
          scoreIn, scoreOut

vars == <<csv, mainPc, db, list, pipes, activeCount, queue, store,
          scoreIn, scoreOut>>

(* ---------- CONFIG ---------- *)
EXCHANGE == <<"N","S","E">>
CONCURRENCY == 6
MAX_SAVE == 8
MAX_PER_QUERY == 10
MIN_RESULTS == 3
\* 1000 * 60 * 60 * 24 * 120 milliseconds
WINDOW_DAYS == 120
\* Date.now(), in days
Now == 20000

(* ---------- bounds of the model ---------- *)
\* longest raw candidate list handed to the scorer on its own
MaxItems == 3
\* number of rows of the symbol file in the scheduler runs
NumRows == 7

(* ---------- strings ---------- *)
Lower == <<"a","b","c","d","e","f","g","h","i","j","k","l","m","n","o","p","q","r","s","t","u","v","w","x","y","z">>
Upper == <<"A","B","C","D","E","F","G","H","I","J","K","L","M","N","O","P","Q","R","S","T","U","V","W","X","Y","Z">>
Digits == <<"0","1","2","3","4","5","6","7","8","9">>

Range(s) == {s[i] : i \in 1..Len(s)}

\* String.prototype.toUpperCase on one character
UpChar(c) ==
  IF \E i \in 1..Len(Lower) : Lower[i] = c
  THEN Upper[CHOOSE i \in 1..Len(Lower) : Lower[i] = c]
  ELSE c

\* const up = (s) => (s || "").toString().toUpperCase()
up(s) == [i \in 1..Len(s) |-> UpChar(s[i])]

\* String.prototype.includes
Includes(h, n) ==
  \E i \in 0..(Len(h) - Len(n)) : SubSeq(h, i + 1, i + Len(n)) = n

\* String.prototype.split(" "): the pieces between single spaces
RECURSIVE SplitFrom(_, _, _)
SplitFrom(s, i, cur) ==
  IF i > Len(s) THEN <<cur>>
  ELSE IF s[i] = " " THEN <<cur>> \o SplitFrom(s, i + 1, <<>>)
  ELSE SplitFrom(s, i + 1, Append(cur, s[i]))

Split(s) == SplitFrom(s, 1, <<>>)

\* Array.prototype.filter
RECURSIVE SelectLong(_)
SelectLong(ps) ==
  IF ps = <<>> THEN <<>>
  ELSE IF Len(Head(ps)) > 3 THEN <<Head(ps)>> \o SelectLong(Tail(ps))
  ELSE SelectLong(Tail(ps))

\* nameU.split(" ").filter((x) => x.length > 3)
NameParts(nameU) == SelectLong(Split(nameU))

(* ---------- FILTER, SCORE, CLEAN ---------- *)
\* if (!it || !it.link || !it.title) continue;
MissingFieldNoTitleCheck(it) == it.link = <<>>
MissingField(it) == it.link = <<>> \/ it.title = <<>>

\* if (url.includes("/search?")) continue;
IsSearchLinkPrefixOnly(url) ==
  Len(url) >= 8 /\ SubSeq(url, 1, 8) = <<"/","s","e","a","r","c","h","?">>
IsSearchLink(url) == Includes(url, <<"/","s","e","a","r","c","h","?">>)

\* if (seen.has(url)) continue;
AlreadySeen(seen, url) == url \in seen

\* new Date(it.pubDate): the raw pubDate is absent, a text no date can be
\* read from (an Invalid Date, whose getTime() is NaN), or a date
ParseDate(pubDate) ==
  [present |-> pubDate.kind # "absent",
   valid |-> pubDate.kind = "date",
   t |-> pubDate.t]

\* publishedAt && now - publishedAt.getTime() > 1000*60*60*24*120
\* (a comparison with NaN is false)
TooOldInclusive(d) == d.present /\ d.valid /\ Now - d.t >= WINDOW_DAYS
TooOld(d) == d.present /\ d.valid /\ Now - d.t > WINDOW_DAYS

\* it.contentSnippet || it.content || ""
Snippet(it) ==
  IF it.contentSnippet # <<>> THEN it.contentSnippet ELSE it.content

\* up(headline + " " + snippet)
HeadU(it) == up(it.title \o <<" ">> \o Snippet(it))

Bonus(headU, kw, pts) == IF Includes(headU, kw) THEN pts ELSE 0

RECURSIVE PartsScore(_, _)
PartsScore(headU, parts) ==
  IF parts = <<>> THEN 0
  ELSE Bonus(headU, Head(parts), 3) + PartsScore(headU, Tail(parts))

EarningsWords ==
  { <<"E","A","R","N","I","N","G","S">>, <<"R","E","S","U","L","T">>,
    <<"Q","1">>, <<"Q","2">>, <<"Q","3">>, <<"Q","4">>,
    <<"R","E","V","E","N","U","E">>, <<"P","R","O","F","I","T">> }

\* the SCORING block
RECURSIVE CountHits(_, _)
CountHits(headU, words) ==
  IF words = {} THEN 0
  ELSE LET w == CHOOSE x \in words : TRUE
       IN  (IF Includes(headU, w) THEN 1 ELSE 0) + CountHits(headU, words \ {w})

ScoreTickerElseName(headU, symU, nameU) ==
    (IF Includes(headU, symU) THEN 6 ELSE Bonus(headU, nameU, 8))
  + PartsScore(headU, NameParts(nameU))
  + Bonus(headU, <<"S","T","O","C","K">>, 5)
  + Bonus(headU, <<"S","H","A","R","E">>, 4)
  + Bonus(headU, <<"M","A","R","K","E","T">>, 3)
  + Bonus(headU, EXCHANGE, 3)
  + (IF \E w \in EarningsWords : Includes(headU, w) THEN 5 ELSE 0)
ScorePerEarningsWord(headU, symU, nameU) ==
    Bonus(headU, symU, 6)
  + Bonus(headU, nameU, 8)
  + PartsScore(headU, NameParts(nameU))
  + Bonus(headU, <<"S","T","O","C","K">>, 5)
  + Bonus(headU, <<"S","H","A","R","E">>, 4)
  + Bonus(headU, <<"M","A","R","K","E","T">>, 3)
  + Bonus(headU, EXCHANGE, 3)
  + 5 * CountHits(headU, EarningsWords)
Score(headU, symU, nameU) ==
    Bonus(headU, symU, 6)
  + Bonus(headU, nameU, 8)
  + PartsScore(headU, NameParts(nameU))
  + Bonus(headU, <<"S","T","O","C","K">>, 5)
  + Bonus(headU, <<"S","H","A","R","E">>, 4)
  + Bonus(headU, <<"M","A","R","K","E","T">>, 3)
  + Bonus(headU, EXCHANGE, 3)
  + (IF \E w \in EarningsWords : Includes(headU, w) THEN 5 ELSE 0)

\* it.source && it.source.title ? it.source.title : it.creator || null
SourceOf(it) == IF it.sourceTitle # <<>> THEN it.sourceTitle ELSE it.creator

\* publishedAt ? publishedAt.toISOString() : null. The ISO text of day t is
\* <<t>>, null is <<>>
ToISO(d) == IF d.present THEN <<d.t>> ELSE <<>>

\* a.published_at ? new Date(a.published_at).getTime() : 0
TimeOf(a) == IF a.published_at # <<>> THEN a.published_at[1] ELSE 0

\* the comparator of results.sort: negative when a goes first
CompareScoreOnly(a, b) == b.score - a.score
Compare(a, b) ==
  IF b.score # a.score THEN b.score - a.score ELSE TimeOf(b) - TimeOf(a)

\* Array.prototype.sort is stable: x goes after every element that does
\* not compare greater than it
RECURSIVE InsertSorted(_, _)
InsertSorted(sorted, x) ==
  IF sorted = <<>> THEN <<x>>
  ELSE IF Compare(Head(sorted), x) <= 0
       THEN <<Head(sorted)>> \o InsertSorted(Tail(sorted), x)
       ELSE <<x>> \o sorted

RECURSIVE SortResults(_, _)
SortResults(rs, acc) ==
  IF rs = <<>> THEN acc
  ELSE SortResults(Tail(rs), InsertSorted(acc, Head(rs)))

\* seen.add(url) comes before the recency test: the url of a candidate that
\* is then dropped as stale is in seen all the same
SeenAfterKeptOnly(seen, url, stale) == IF stale THEN seen ELSE seen \cup {url}
SeenAfter(seen, url, stale) == seen \cup {url}

\* the for loop of cleanAndScore; toISOString() of an Invalid Date throws a
\* RangeError, which ends the call
RECURSIVE ScoreLoop(_, _, _, _, _)
ScoreLoop(items, symU, nameU, seen, results) ==
  IF items = <<>> THEN [threw |-> FALSE, results |-> results]
  ELSE
    LET it == Head(items)
        rest == Tail(items)
        d == ParseDate(it.pubDate)
    IN  IF MissingField(it) THEN ScoreLoop(rest, symU, nameU, seen, results)
        ELSE IF IsSearchLink(it.link)
          THEN ScoreLoop(rest, symU, nameU, seen, results)
        ELSE IF AlreadySeen(seen, it.link)
          THEN ScoreLoop(rest, symU, nameU, seen, results)
        ELSE IF TooOld(d)
          THEN ScoreLoop(rest, symU, nameU, SeenAfter(seen, it.link, TRUE), results)
        ELSE IF d.present /\ ~d.valid
          THEN [threw |-> TRUE, results |-> <<>>]
        ELSE ScoreLoop(rest, symU, nameU, SeenAfter(seen, it.link, FALSE),
               Append(results,
                 [headline |-> it.title,
                  url |-> it.link,
                  source |-> SourceOf(it),
                  published_at |-> ToISO(d),
                  score |-> Score(HeadU(it), symU, nameU)]))

cleanAndScore(items, symbol, name) ==
  LET r == ScoreLoop(items, up(symbol), up(name), {}, <<>>)
  IN  IF r.threw THEN r
      ELSE [threw |-> FALSE, results |-> SortResults(r.results, <<>>)]

(* ---------- raw candidates of the runs ---------- *)
NoDate == [kind |-> "absent", t |-> 0]
BadDate == [kind |-> "invalid", t |-> 0]
DateAt(t) == [kind |-> "date", t |-> t]

Item(link, title, pubDate) ==
  [link |-> link, title |-> title, contentSnippet |-> <<>>, content |-> <<>>,
   pubDate |-> pubDate, sourceTitle |-> <<>>, creator |-> <<>>]

LinkA == <<"n","/","a">>
LinkB == <<"n","/","b">>
LinkC == <<"n","/","c">>
LinkD == <<"n","/","d">>
LinkSearch == <<"n","/","s","e","a","r","c","h","?","q">>
HeadTataQ2 == <<"T","a","t","a"," ","Q","2">>
HeadTcsStock == <<"t","c","s"," ","s","t","o","c","k">>
HeadMisc == <<"M","i","s","c">>
HeadTcs == <<"T","C","S">>
LinkE == <<"n","/","e">>
LinkF == <<"n","/","f">>
LinkG == <<"n","/","g">>
LinkH == <<"n","/","h">>
HeadTataCs == <<"T","a","t","a"," ","C","S">>
HeadTcsTataCs == <<"T","C","S"," ","T","a","t","a"," ","C","S">>
HeadQ2Result == <<"Q","2"," ","r","e","s","u","l","t"," ","p","r","o","f","i","t">>
SnipMarket == <<"n","s","e"," ","s","h","a","r","e"," ","m","a","r","k","e","t">>

ItemA == Item(LinkA, HeadTataQ2, DateAt(Now))
ItemADup == Item(LinkA, HeadTcsStock, NoDate)
ItemB == Item(LinkB, HeadMisc, NoDate)
ItemSearch == Item(LinkSearch, HeadTcsStock, DateAt(Now))
ItemNoTitle == Item(LinkC, <<>>, DateAt(Now))
ItemNoLink == Item(<<>>, HeadTcs, DateAt(Now))
ItemOld == Item(LinkD, HeadTcs, DateAt(Now - 121))
ItemEdge == Item(LinkD, HeadTcs, DateAt(Now - 120))
ItemRecent == Item(LinkC, HeadTcs, DateAt(Now - 1))
ItemUndated == Item(LinkB, HeadTcs, NoDate)
ItemBadDate == Item(LinkC, HeadMisc, BadDate)
ItemFresh == Item(LinkE, HeadTcs, DateAt(Now - 119))
ItemNameOnly == Item(LinkF, HeadTataCs, DateAt(Now))
ItemBoth == Item(LinkG, HeadTcsTataCs, DateAt(Now))
ItemRich ==
  [Item(LinkH, HeadQ2Result, DateAt(Now - 1)) EXCEPT
     !.contentSnippet = SnipMarket, !.content = HeadMisc]

Catalog ==
  { ItemA, ItemADup, ItemB, ItemSearch, ItemNoTitle, ItemNoLink, ItemOld,
    ItemEdge, ItemRecent, ItemUndated, ItemBadDate, ItemFresh, ItemNameOnly,
    ItemBoth, ItemRich }

SeqsUpTo(S, n) == UNION { [1..k -> S] : k \in 0..n }

RowTCS == [symbol |-> <<"T","C","S">>, name |-> <<"T","a","t","a"," ","C","S">>]
RowINFY == [symbol |-> <<"I","N","F","Y">>, name |-> <<"I","N","F","Y">>]

(* ---------- READ SYMBOLS FROM CSV ---------- *)
\* String.prototype.trim
RECURSIVE TrimLeft(_)
TrimLeft(s) ==
  IF s # <<>> /\ Head(s) = " " THEN TrimLeft(Tail(s)) ELSE s

RECURSIVE TrimRight(_)
TrimRight(s) ==
  IF s # <<>> /\ s[Len(s)] = " " THEN TrimRight(SubSeq(s, 1, Len(s) - 1)) ELSE s

Trim(s) == TrimRight(TrimLeft(s))

\* the "data" handler: rows without a symbol are skipped, a row without a
\* name takes its symbol as name
RECURSIVE readCsv(_)
readCsv(rows) ==
  IF rows = <<>> THEN <<>>
  ELSE LET symbol == Trim(Head(rows).SYMBOL)
           name == Trim(Head(rows).NAME)
       IN  IF symbol # <<>>
           THEN <<[symbol |-> symbol,
                   name |-> IF name # <<>> THEN name ELSE symbol]>>
                \o readCsv(Tail(rows))
           ELSE readCsv(Tail(rows))

(* ---------- STRONGER QUERY BUILDER ---------- *)
RECURSIVE Sanitize(_)
\* symbol.replace(/[^A-Za-z0-9_.-]/g, "")
Sanitize(s) ==
  IF s = <<>> THEN <<>>
  ELSE IF Head(s) \in Range(Lower) \cup Range(Upper) \cup Range(Digits)
                      \cup {"_", ".", "-"}
       THEN <<Head(s)>> \o Sanitize(Tail(s))
       ELSE Sanitize(Tail(s))

\* a query is the quoted subject followed by fixed words
buildQueries(symbol, name) ==
  LET sym == Sanitize(symbol)
  IN  << [subject |-> name, words |-> "stock price"],
         [subject |-> name, words |-> "share news"],
         [subject |-> sym,  words |-> "NSE"],
         [subject |-> name, words |-> "results"],
         [subject |-> name, words |-> "earnings"],
         [subject |-> name, words |-> "business news"],
         [subject |-> sym,  words |-> "stock"] >>

(* ---------- the news source and the rows of the runs ---------- *)
RowBIG == [symbol |-> <<"B","I","G">>, name |-> <<"B","I","G">>]
RowWIPRO == [symbol |-> <<"W","I","P","R","O">>, name |-> <<"W","I","P","R","O">>]
RowWIDE == [symbol |-> <<"W","I","D","E">>, name |-> <<"W","I","D","E">>]
\* the k-th quiet row of a scheduler run
RowQuiet(k) == [symbol |-> <<"Q", Digits[k]>>, name |-> <<"Q", Digits[k]>>]

FeedError == [ok |-> FALSE, items |-> <<>>]
FeedOf(items) == [ok |-> TRUE, items |-> items]

\* eleven candidates with eleven links; for RowBIG every second one scores
HeadBig == <<"B","i","g">>
BigBatch ==
  [k \in 1..11 |->
     Item(<<"m", "/", Lower[k]>>, IF k % 2 = 0 THEN HeadBig ELSE HeadMisc, NoDate)]

\* what parser.parseURL can answer to a query: a failure, or a feed
FeedResponses(q) ==
  IF q.subject = RowTCS.name THEN
    { FeedError, FeedOf(<<>>), FeedOf(<<ItemA>>),
      FeedOf(<<ItemA, ItemADup, ItemB>>),
      FeedOf(<<ItemA, ItemB, ItemRecent, ItemSearch>>) }
  ELSE IF q.subject = RowTCS.symbol THEN
    { FeedError, FeedOf(<<ItemBadDate>>), FeedOf(<<ItemOld, ItemUndated>>) }
  ELSE IF q.subject = RowBIG.symbol THEN
    { FeedOf(BigBatch) }
  ELSE IF q.subject = RowWIDE.symbol THEN
    IF q.words = "stock price"
    THEN { FeedOf(<<ItemOld, ItemUndated>>) }
    ELSE { FeedOf(BigBatch) }
  ELSE IF q.subject = RowINFY.symbol THEN
    { FeedOf(<<ItemA, ItemB, ItemRecent>>) }
  ELSE IF q.subject = RowWIPRO.symbol THEN
    IF q.words = "stock price"
    THEN { FeedError, FeedOf(<<ItemA>>) }
    ELSE { FeedOf(<<ItemADup, ItemA, ItemSearch>>) }
  ELSE
    { FeedOf(<<ItemSearch, ItemSearch, ItemSearch>>),
      FeedOf(<<ItemBadDate, ItemBadDate, ItemBadDate>>) }

\* a record left in nse_news by an earlier run
PriorRecord ==
  [symbol |-> <<"O","L","D">>, headline |-> HeadMisc, url |-> LinkA,
   source |-> <<>>, published_at |-> <<>>]

CsvRow(row) == [SYMBOL |-> row.symbol, NAME |-> row.name]

\* symbol files of the pipeline runs
PipeFiles ==
  { [readable |-> FALSE, rows |-> <<>>],
    [readable |-> TRUE, rows |-> <<>>],
    [readable |-> TRUE, rows |-> <<CsvRow(RowTCS)>>],
    [readable |-> TRUE, rows |-> <<CsvRow(RowBIG)>>],
    [readable |-> TRUE, rows |-> <<CsvRow(RowWIDE)>>],
    [readable |-> TRUE,
     rows |-> <<[SYMBOL |-> <<" ">>, NAME |-> <<"X">>],
                [SYMBOL |-> <<" ","I","N","F","Y"," ">>, NAME |-> <<>>],
                CsvRow(RowWIPRO)>>],
    [readable |-> TRUE, rows |-> <<CsvRow(RowINFY), CsvRow(RowINFY)>>] }

\* symbol files of the scheduler runs
SchedFiles ==
  { [readable |-> FALSE, rows |-> <<>>],
    [readable |-> TRUE,
     rows |-> [k \in 1..NumRows |->
                IF k = 1 THEN CsvRow(RowWIPRO) ELSE CsvRow(RowQuiet(k))]] }

(* ---------- SAVE ONE NEWS ITEM ---------- *)
\* the row saveToDb sends for an item
RecordOf(symbol, item) ==
  [symbol |-> symbol, headline |-> item.headline, url |-> item.url,
   source |-> item.source, published_at |-> item.published_at]

\* INSERT ... ON CONFLICT (url) DO NOTHING, on the table's rows
UpsertOverwrite(table, rec) ==
  {r \in table : r.url # rec.url} \cup {rec}
Upsert(table, rec) ==
  IF \E r \in table : r.url = rec.url THEN table ELSE table \cup {rec}

(* ---------- FETCH NEWS FOR ONE COMPANY ---------- *)
Min(a, b) == IF a < b THEN a ELSE b

\* a row's pipeline before limit() runs it
Waiting ==
  [pc |-> "queued", qi |-> 0, collected |-> <<>>, toSave |-> <<>>, si |-> 0,
   starts |-> 0, issued |-> <<>>, outcomes |-> <<>>, attempts |-> <<>>,
   logged |-> <<>>]

\* fetchForSymbol up to its first await: the first query is on its way.
\* starts, issued, outcomes, attempts and logged record what the run did
Begin(p) ==
  [p EXCEPT !.pc = "fetching", !.qi = 1, !.collected = <<>>,
            !.starts = @ + 1, !.issued = Append(@, 1)]

\* if (feed?.items?.length) collected.push(...feed.items.slice(0, MAX_PER_QUERY));
\* a failed fetch is caught and leaves collected as it was
CollectUncapped(collected, resp) ==
  IF resp.ok THEN collected \o resp.items ELSE collected
CollectLosingOnError(collected, resp) ==
  IF resp.ok
  THEN collected \o SubSeq(resp.items, 1, Min(Len(resp.items), MAX_PER_QUERY))
  ELSE <<>>
Collect(collected, resp) ==
  IF resp.ok
  THEN collected \o SubSeq(resp.items, 1, Min(Len(resp.items), MAX_PER_QUERY))
  ELSE collected

\* if (collected.length >= MIN_RESULTS) break;
EnoughResultsStrict(collected) == Len(collected) > MIN_RESULTS
EnoughResults(collected) == Len(collected) >= MIN_RESULTS

\* from the end of the query loop to the next await: score, cut to MAX_SAVE,
\* and send the first item; with nothing to save the summary is logged
AfterLoopNoCut(p, row) ==
  LET cleaned == cleanAndScore(p.collected, row.symbol, row.name)
      toSave == cleaned.results
  IN  IF cleaned.threw THEN [p EXCEPT !.pc = "rejected"]
      ELSE IF toSave = <<>>
        THEN [p EXCEPT !.pc = "pacing", !.logged = <<0>>]
        ELSE [p EXCEPT !.pc = "saving", !.toSave = toSave, !.si = 1]
AfterLoop(p, row) ==
  LET cleaned == cleanAndScore(p.collected, row.symbol, row.name)
      toSave == SubSeq(cleaned.results, 1, Min(Len(cleaned.results), MAX_SAVE))
  IN  IF cleaned.threw THEN [p EXCEPT !.pc = "rejected"]
      ELSE IF toSave = <<>>
        THEN [p EXCEPT !.pc = "pacing", !.logged = <<0>>]
        ELSE [p EXCEPT !.pc = "saving", !.toSave = toSave, !.si = 1]

\* from the return of parser.parseURL to the next await
AfterFetch(p, row, resp) ==
  LET q == [p EXCEPT !.collected = Collect(@, resp),
                     !.outcomes = Append(@, resp.ok)]
  IN  IF EnoughResults(q.collected) THEN AfterLoop(q, row)
      ELSE [q EXCEPT !.pc = "sleeping"]

\* from the end of the delay between two queries to the next await
AfterDelayRetry(p, row) ==
  IF ~p.outcomes[Len(p.outcomes)]
  THEN [p EXCEPT !.pc = "fetching", !.issued = Append(@, p.qi)]
  ELSE IF p.qi < Len(buildQueries(row.symbol, row.name))
  THEN [p EXCEPT !.pc = "fetching", !.qi = @ + 1,
                 !.issued = Append(@, p.qi + 1)]
  ELSE AfterLoop(p, row)
AfterDelay(p, row) ==
  IF p.qi < Len(buildQueries(row.symbol, row.name))
  THEN [p EXCEPT !.pc = "fetching", !.qi = @ + 1,
                 !.issued = Append(@, p.qi + 1)]
  ELSE AfterLoop(p, row)

\* from the return of saveToDb (ok or caught) to the next await
AfterStoreStopOnError(p, ok) ==
  LET q == [p EXCEPT !.attempts =
                       Append(@, [url |-> p.toSave[p.si].url, ok |-> ok])]
  IN  IF ok /\ p.si < Len(p.toSave) THEN [q EXCEPT !.si = @ + 1]
      ELSE [q EXCEPT !.pc = "pacing", !.logged = <<Len(p.toSave)>>]
AfterStore(p, ok) ==
  LET q == [p EXCEPT !.attempts =
                       Append(@, [url |-> p.toSave[p.si].url, ok |-> ok])]
  IN  IF p.si < Len(p.toSave) THEN [q EXCEPT !.si = @ + 1]
      ELSE [q EXCEPT !.pc = "pacing", !.logged = <<Len(p.toSave)>>]

(* ---------- MAIN ---------- *)
Rows == 1..Len(list)

\* p-limit runs a task at once only while fewer than CONCURRENCY are running
HasFreeSlotAlways(active) == TRUE
HasFreeSlot(active) == active < CONCURRENCY

\* list.map((r) => limit(...)): the rows are handed to limit in order; the
\* result is the pipelines, the number running and the queue of the others
RECURSIVE EnqueueFrom(_, _, _, _, _)
EnqueueFrom(i, n, ps, active, q) ==
  IF i > n THEN [pipes |-> ps, activeCount |-> active, queue |-> q]
  ELSE IF HasFreeSlot(active) /\ q = <<>>
    THEN EnqueueFrom(i + 1, n, [ps EXCEPT ![i] = Begin(@)], active + 1, q)
    ELSE EnqueueFrom(i + 1, n, ps, active, Append(q, i))

\* p-limit's next(): the slot is given back and the head of the queue runs
Release(ps, active, q) ==
  IF q # <<>>
  THEN [pipes |-> [ps EXCEPT ![Head(q)] = Begin(@)],
        activeCount |-> active, queue |-> Tail(q)]
  ELSE [pipes |-> ps, activeCount |-> active - 1, queue |-> q]

AnySettled(ps) == \E i \in DOMAIN ps : ps[i].pc = "settled"
AllSettled(ps) == \A i \in DOMAIN ps : ps[i].pc = "settled"

Init ==
  /\ csv \in PipeFiles
  /\ mainPc = "connect"
  /\ db = "new"
  /\ list = <<>>
  /\ pipes = <<>>
  /\ activeCount = 0
  /\ queue = <<>>
  /\ store \in {{}, {PriorRecord}}
  /\ scoreIn = [items |-> <<>>, row |-> RowTCS]
  /\ scoreOut = [ran |-> FALSE, threw |-> FALSE, results |-> <<>>]

InitSched ==
  /\ csv \in SchedFiles
  /\ mainPc = "connect"
  /\ db = "new"
  /\ list = <<>>
  /\ pipes = <<>>
  /\ activeCount = 0
  /\ queue = <<>>
  /\ store = {}
  /\ scoreIn = [items |-> <<>>, row |-> RowTCS]
  /\ scoreOut = [ran |-> FALSE, threw |-> FALSE, results |-> <<>>]

\* await DB.connect() resolves
ConnectOk ==
  /\ mainPc = "connect"
  /\ mainPc' = "readCsv"
  /\ db' = "connected"
  /\ UNCHANGED <<csv, list, pipes, activeCount, queue, store, scoreIn, scoreOut>>

\* await DB.connect() rejects: main().catch logs and calls process.exit(1)
ConnectFail ==
  /\ mainPc = "connect"
  /\ mainPc' = "exit1"
  /\ UNCHANGED <<csv, db, list, pipes, activeCount, queue, store, scoreIn, scoreOut>>

\* readCsv resolves; every row is handed to limit, and Promise.all waits
ReadCsvOk ==
  /\ mainPc = "readCsv"
  /\ csv.readable
  /\ LET rows == readCsv(csv.rows)
         e == EnqueueFrom(1, Len(rows), [i \in 1..Len(rows) |-> Waiting], 0, <<>>)
     IN  /\ list' = rows
         /\ pipes' = e.pipes
         /\ activeCount' = e.activeCount
         /\ queue' = e.queue
         /\ mainPc' = IF rows = <<>> THEN "ending" ELSE "running"
  /\ UNCHANGED <<csv, db, store, scoreIn, scoreOut>>

\* the read stream emits "error": readCsv rejects
ReadCsvFailResolvesEmpty ==
  /\ mainPc = "readCsv"
  /\ ~csv.readable
  /\ mainPc' = "ending"
  /\ UNCHANGED <<csv, db, list, pipes, activeCount, queue, store, scoreIn, scoreOut>>
ReadCsvFail ==
  /\ mainPc = "readCsv"
  /\ ~csv.readable
  /\ mainPc' = "exit1"
  /\ UNCHANGED <<csv, db, list, pipes, activeCount, queue, store, scoreIn, scoreOut>>

\* pipeline i moves to p. When fetchForSymbol has thrown, the task rejects:
\* p-limit starts the next queued task, Promise.all rejects and
\* main().catch calls process.exit(1)
Advance(i, p) ==
  IF p.pc = "rejected"
  THEN LET r == Release([pipes EXCEPT ![i] = p], activeCount, queue)
       IN  /\ pipes' = r.pipes
           /\ activeCount' = r.activeCount
           /\ queue' = r.queue
           /\ mainPc' = "exit1"
  ELSE /\ pipes' = [pipes EXCEPT ![i] = p]
       /\ UNCHANGED <<activeCount, queue, mainPc>>

\* parser.parseURL resolves with a feed
FetchOk(i) ==
  /\ mainPc = "running"
  /\ pipes[i].pc = "fetching"
  /\ \E resp \in FeedResponses(buildQueries(list[i].symbol, list[i].name)[pipes[i].qi]) :
       /\ resp.ok
       /\ Advance(i, AfterFetch(pipes[i], list[i], resp))
  /\ UNCHANGED <<csv, db, list, store, scoreIn, scoreOut>>

\* parser.parseURL rejects: the catch logs a warning
FetchError(i) ==
  /\ mainPc = "running"
  /\ pipes[i].pc = "fetching"
  /\ \E resp \in FeedResponses(buildQueries(list[i].symbol, list[i].name)[pipes[i].qi]) :
       /\ ~resp.ok
       /\ Advance(i, AfterFetch(pipes[i], list[i], resp))
  /\ UNCHANGED <<csv, db, list, store, scoreIn, scoreOut>>

\* the timer between two queries fires
DelayElapsed(i) ==
  /\ mainPc = "running"
  /\ pipes[i].pc = "sleeping"
  /\ Advance(i, AfterDelay(pipes[i], list[i]))
  /\ UNCHANGED <<csv, db, list, store, scoreIn, scoreOut>>

\* DB.query resolves: the row is in the table, or was there already
StoreOk(i) ==
  /\ mainPc = "running"
  /\ pipes[i].pc = "saving"
  /\ store' = Upsert(store, RecordOf(list[i].symbol, pipes[i].toSave[pipes[i].si]))
  /\ pipes' = [pipes EXCEPT ![i] = AfterStore(@, TRUE)]
  /\ UNCHANGED <<csv, mainPc, db, list, activeCount, queue, scoreIn, scoreOut>>

\* DB.query rejects: the catch logs a warning
StoreError(i) ==
  /\ mainPc = "running"
  /\ pipes[i].pc = "saving"
  /\ pipes' = [pipes EXCEPT ![i] = AfterStore(@, FALSE)]
  /\ UNCHANGED <<csv, mainPc, db, list, activeCount, queue, store, scoreIn, scoreOut>>

\* the timer after fetchForSymbol fires: the task settles, p-limit runs the
\* next one; when it was the last, Promise.all resolves and DB.end() is called
PaceElapsed(i) ==
  /\ mainPc = "running"
  /\ pipes[i].pc = "pacing"
  /\ LET r == Release([pipes EXCEPT ![i].pc = "settled"], activeCount, queue)
     IN  /\ pipes' = r.pipes
         /\ activeCount' = r.activeCount
         /\ queue' = r.queue
         /\ mainPc' = IF AllSettled(r.pipes) THEN "ending" ELSE "running"
  /\ UNCHANGED <<csv, db, list, store, scoreIn, scoreOut>>

\* await DB.end() resolves: "NSE RSS scraping complete."
EndOk ==
  /\ mainPc = "ending"
  /\ mainPc' = "done"
  /\ db' = "ended"
  /\ UNCHANGED <<csv, list, pipes, activeCount, queue, store, scoreIn, scoreOut>>

\* await DB.end() rejects
EndFail ==
  /\ mainPc = "ending"
  /\ mainPc' = "exit1"
  /\ UNCHANGED <<csv, db, list, pipes, activeCount, queue, store, scoreIn, scoreOut>>

Next ==
  \/ ConnectOk
  \/ ConnectFail
  \/ ReadCsvOk
  \/ ReadCsvFail
  \/ \E i \in Rows : FetchOk(i)
  \/ \E i \in Rows : FetchError(i)
  \/ \E i \in Rows : DelayElapsed(i)
  \/ \E i \in Rows : StoreOk(i)
  \/ \E i \in Rows : StoreError(i)
  \/ \E i \in Rows : PaceElapsed(i)
  \/ EndOk
  \/ EndFail

Spec == Init /\ [][Next]_vars

SpecSched == InitSched /\ [][Next]_vars

(* ---------- properties of the pipeline and the scheduler ---------- *)
UniqueUrls(table) == \A r1, r2 \in table : r1.url = r2.url => r1 = r2

OkCount(p) == Cardinality({k \in 1..Len(p.attempts) : p.attempts[k].ok})

\* fetchForSymbol has been called for the row and has neither returned nor thrown
InFlight(p) == p.pc \in {"fetching", "sleeping", "saving"}

\* fetchForSymbol has returned
Returned1(p) == p.pc \in {"pacing", "settled"}

\* C1: the table holds at most one row per url, and no step removes or
\* changes a row that is in it: a saveToDb for a url already stored leaves
\* the table as it was.
C1_FirstWriteWins ==
  [][UniqueUrls(store) /\ UniqueUrls(store') /\ store \subseteq store']_vars

\* two pipelines of different symbols have both saved the same url without
\* an error
C1_Witness ==
  \E i, j \in DOMAIN pipes :
    /\ list[i].symbol # list[j].symbol
    /\ \E a \in 1..Len(pipes[i].attempts), b \in 1..Len(pipes[j].attempts) :
         /\ pipes[i].attempts[a].ok
         /\ pipes[j].attempts[b].ok
         /\ pipes[i].attempts[a].url = pipes[j].attempts[b].url

\* C2: at most CONCURRENCY fetchForSymbol invocations are in flight.
C2_ConcurrencyCap ==
  Cardinality({i \in DOMAIN pipes : InFlight(pipes[i])}) <= CONCURRENCY

\* a task has settled, its slot went to a queued row, and CONCURRENCY
\* invocations are in flight
C2_Witness ==
  /\ Len(list) > CONCURRENCY
  /\ \E i \in DOMAIN pipes : pipes[i].pc = "settled"
  /\ Cardinality({i \in DOMAIN pipes : InFlight(pipes[i])}) = CONCURRENCY

\* C3 (as claimed): once the store connection and the symbol load have
\* succeeded, main is past its Promise.all only when every row's pipeline has
\* been started exactly once and has settled.
C3_AllStartedAndAwaited ==
  (db # "new" /\ csv.readable /\ mainPc \in {"ending", "done", "exit1"}) =>
    \A i \in DOMAIN pipes :
      pipes[i].starts = 1 /\ pipes[i].pc \in {"pacing", "settled", "rejected"}

\* C4 (as claimed): when a row's pipeline has failed and the process is
\* over, the pipeline of every other row has been started and has run to
\* completion.
C4_FailureIsolated ==
  (mainPc \in {"done", "exit1"} /\ \E i \in DOMAIN pipes : pipes[i].pc = "rejected") =>
    \A j \in DOMAIN pipes :
      pipes[j].pc # "rejected" => pipes[j].starts = 1 /\ Returned1(pipes[j])

\* C5: once a pipeline holds at least MIN_RESULTS raw candidates, it issues
\* no further query.
C5_EarlyExit ==
  [][\A i \in DOMAIN pipes :
       Len(pipes[i].collected) >= MIN_RESULTS =>
         pipes'[i].issued = pipes[i].issued]_vars

\* the first query returned four candidates, and the pipeline ran to its end
\* with that one query
C5_Witness ==
  \E i \in DOMAIN pipes :
    /\ Len(pipes[i].collected) = 4
    /\ pipes[i].issued = <<1>>
    /\ pipes[i].pc = "settled"

\* C6: a failed fetch leaves the candidates gathered so far as they were,
\* sends the pipeline to its delay and does not reach main; after the delay
\* the next query is issued, or, after the last query, scoring and saving
\* go on with the candidates as they were.
C6_FetchFailureContinues ==
  [][\A i \in DOMAIN pipes :
       LET p == pipes[i]
           n == pipes'[i]
       IN  /\ (Len(n.outcomes) = Len(p.outcomes) + 1 /\ ~n.outcomes[Len(n.outcomes)]) =>
                /\ n.collected = p.collected
                /\ n.pc = "sleeping"
                /\ mainPc' = mainPc
           /\ (p.pc = "sleeping" /\ n # p) =>
                /\ n.collected = p.collected
                /\ IF p.qi < Len(buildQueries(list[i].symbol, list[i].name))
                   THEN n.pc = "fetching" /\ n.issued = Append(p.issued, p.qi + 1)
                   ELSE n.pc \in {"saving", "pacing", "rejected"} /\ n.issued = p.issued]_vars

\* the last query failed after an earlier one had brought a candidate, and
\* that candidate was scored and saved
C6_Witness ==
  \E i \in DOMAIN pipes :
    LET p == pipes[i]
    IN  /\ Len(p.outcomes) = Len(buildQueries(list[i].symbol, list[i].name))
        /\ ~p.outcomes[Len(p.outcomes)]
        /\ p.collected # <<>>
        /\ p.pc = "settled"
        /\ OkCount(p) > 0

\* C7: the store attempts of a pipeline are the items of toSave, in order,
\* one attempt each, whatever the outcomes; when fetchForSymbol has returned
\* every item has had its attempt, and a pipeline that threw had made none.
C7_EveryItemAttemptedOnce ==
  \A i \in DOMAIN pipes :
    LET p == pipes[i]
    IN  /\ Len(p.attempts) <= Len(p.toSave)
        /\ \A k \in 1..Len(p.attempts) : p.attempts[k].url = p.toSave[k].url
        /\ \A k, m \in 1..Len(p.toSave) : p.toSave[k].url = p.toSave[m].url => k = m
        /\ (p.pc = "saving" => Len(p.attempts) = p.si - 1)
        /\ (Returned1(p) => Len(p.attempts) = Len(p.toSave))
        /\ (p.pc = "rejected" => p.attempts = <<>>)

\* a pipeline saved MAX_SAVE items; the first attempt failed, a later one
\* failed too, and the last succeeded
C7_Witness ==
  \E i \in DOMAIN pipes :
    LET p == pipes[i]
    IN  /\ p.pc = "settled"
        /\ Len(p.toSave) = MAX_SAVE
        /\ Len(p.collected) > MAX_SAVE
        /\ ~p.attempts[1].ok
        /\ ~p.attempts[MAX_SAVE - 1].ok
        /\ p.attempts[MAX_SAVE].ok

\* C8 (as claimed): the count a pipeline reports is the number of its store
\* attempts that did not fail.
C8_SavedCountIsOkCount ==
  \A i \in DOMAIN pipes :
    pipes[i].logged # <<>> => pipes[i].logged[1] = OkCount(pipes[i])

\* C15: when DB.connect() or readCsv has failed, the process is in its
\* exit(1) state, no row has a pipeline (so nothing was fetched or written)
\* and the table is as the run found it.
C15_FatalErrorStartsNothing ==
  ( \/ (db = "new" /\ mainPc # "connect")
    \/ (~csv.readable /\ mainPc \notin {"connect", "readCsv"}) )
  => /\ mainPc = "exit1"
     /\ list = <<>>
     /\ pipes = <<>>
     /\ activeCount = 0
     /\ store \subseteq {PriorRecord}

\* the connection was made and the symbol file could not be read
C15_Witness ==
  /\ db = "connected"
  /\ ~csv.readable
  /\ mainPc = "exit1"

\* the ranking the scorer gives for what a pipeline collected
RankedOf(i) ==
  cleanAndScore(pipes[i].collected, list[i].symbol, list[i].name).results

\* C16: the items a pipeline tries to store are the first min(8, n) entries
\* of the ranking of length n, in rank order without a gap; nothing ranked
\* after place 8 is attempted or stored, and nothing is attempted before the
\* ranking exists.
C16_TopNInRankOrder ==
  \A i \in DOMAIN pipes :
    LET p == pipes[i]
    IN  IF p.pc \in {"saving", "pacing", "settled"}
        THEN LET ranked == RankedOf(i)
                 m == IF Len(ranked) < 8 THEN Len(ranked) ELSE 8
             IN  /\ Len(p.toSave) = m
                 /\ Len(p.attempts) <= m
                 /\ \A k \in 1..Len(p.attempts) : p.attempts[k].url = ranked[k].url
                 /\ (Returned1(p) => Len(p.attempts) = m)
                 /\ \A k \in 9..Len(ranked) :
                      ~\E r \in store :
                         r.url = ranked[k].url /\ r.symbol = list[i].symbol
        ELSE p.attempts = <<>>

\* ten candidates were ranked in another order than they came, the eight
\* best were stored and the two last were not
C16_Witness ==
  \E i \in DOMAIN pipes :
    LET p == pipes[i]
    IN  /\ p.pc = "settled"
        /\ Len(RankedOf(i)) = 10
        /\ RankedOf(i)[1].url # p.collected[1].link
        /\ RankedOf(i)[1].score > RankedOf(i)[8].score
        /\ Len(p.attempts) = 8
        /\ \A k \in 1..8 : \E r \in store : r.url = RankedOf(i)[k].url
        /\ \A k \in 9..10 : ~\E r \in store : r.url = RankedOf(i)[k].url

IsPrefix(s, t) == Len(s) <= Len(t) /\ SubSeq(t, 1, Len(s)) = s

\* C17: a pipeline issues query 1, 2, 3, ... of buildQueries in that order,
\* each once, the next only when the one before has returned or failed; the
\* query in flight is the last one issued, and the candidates only grow at
\* their end, when a fetch returns.
C17_QueriesInOrderOnce ==
  [][\A i \in DOMAIN pipes' :
       LET p == IF i \in DOMAIN pipes THEN pipes[i] ELSE Waiting
           n == pipes'[i]
       IN  /\ \A k \in 1..Len(n.issued) : n.issued[k] = k
           /\ Len(n.issued) <= Len(buildQueries(list'[i].symbol, list'[i].name))
           /\ (n.pc = "fetching" => n.qi = Len(n.issued)
                                    /\ Len(n.outcomes) = Len(n.issued) - 1)
           /\ (n.pc # "fetching" => Len(n.outcomes) = Len(n.issued))
           /\ (n.issued # p.issued =>
                 /\ n.issued = Append(p.issued, Len(p.issued) + 1)
                 /\ Len(p.outcomes) = Len(p.issued))
           /\ IsPrefix(p.collected, n.collected)
           /\ (n.collected # p.collected =>
                 Len(n.outcomes) = Len(p.outcomes) + 1)]_vars

\* the first query failed and was not tried again: all seven queries were
\* issued, two of the later ones brought one candidate each
C17_Witness ==
  \E i \in DOMAIN pipes :
    LET p == pipes[i]
    IN  /\ p.pc = "settled"
        /\ p.issued = <<1, 2, 3, 4, 5, 6, 7>>
        /\ ~p.outcomes[1]
        /\ Len(p.collected) = 2

\* C19: a pipeline never holds more than (MIN_RESULTS - 1) + MAX_PER_QUERY
\* = 12 raw candidates, and it waits for a feed or for its delay only with
\* fewer than 3.
C19_CollectedAtMostTwelve ==
  \A i \in DOMAIN pipes :
    /\ Len(pipes[i].collected) <= 12
    /\ Len(pipes[i].collected) <= (MIN_RESULTS - 1) + MAX_PER_QUERY
    /\ (pipes[i].pc \in {"fetching", "sleeping"} => Len(pipes[i].collected) < 3)

\* two candidates from the first query and ten of the eleven of the second
\* were handed to the scorer
C19_Witness ==
  \E i \in DOMAIN pipes :
    /\ pipes[i].pc = "settled"
    /\ Len(pipes[i].issued) = 2
    /\ Len(pipes[i].collected) = 12

\* C20: a store call returns only while the connection is open and main
\* waits in Promise.all; a store call is pending only on an open connection;
\* and DB.end() is called, and the connection ended, only when every row's
\* task has settled.
C20_WritesWhileConnected ==
  [][/\ \A i \in DOMAIN pipes :
          Len(pipes'[i].attempts) > Len(pipes[i].attempts) =>
            db = "connected" /\ mainPc = "running"
     /\ \A i \in DOMAIN pipes' :
          pipes'[i].pc = "saving" => db' = "connected" /\ mainPc' \in {"running", "exit1"}
     /\ (mainPc' \in {"ending", "done"} \/ db' = "ended") =>
          \A i \in DOMAIN pipes' : pipes'[i].pc = "settled"]_vars

\* two pipelines have written, all have settled, and the connection is ended
C20_Witness ==
  /\ mainPc = "done"
  /\ db = "ended"
  /\ Len(list) = 2
  /\ \A i \in DOMAIN pipes : pipes[i].pc = "settled" /\ OkCount(pipes[i]) > 0

(* ---------- the scorer on its own ---------- *)
Idle ==
  /\ csv = <<>>
  /\ mainPc = "idle"
  /\ db = "new"
  /\ list = <<>>
  /\ pipes = <<>>
  /\ activeCount = 0
  /\ queue = <<>>
  /\ store = {}

InitScore ==
  /\ Idle
  /\ scoreIn \in [items : SeqsUpTo(Catalog, MaxItems), row : {RowTCS, RowINFY}]
  /\ scoreOut = [ran |-> FALSE, threw |-> FALSE, results |-> <<>>]

CallCleanAndScore ==
  /\ ~scoreOut.ran
  /\ LET r == cleanAndScore(scoreIn.items, scoreIn.row.symbol, scoreIn.row.name)
     IN  scoreOut' = [ran |-> TRUE, threw |-> r.threw, results |-> r.results]
  /\ UNCHANGED <<csv, mainPc, db, list, pipes, activeCount, queue, store, scoreIn>>

NextScore == CallCleanAndScore

SpecScore == InitScore /\ [][NextScore]_vars

Returned == scoreOut.ran /\ ~scoreOut.threw

\* C9: cleanAndScore's output never holds two entries with the same url, and
\* every entry is built from a raw candidate that has both a link and a title.
C9_DedupAndValid ==
  Returned =>
    /\ \A i, j \in 1..Len(scoreOut.results) :
         scoreOut.results[i].url = scoreOut.results[j].url => i = j
    /\ \A i \in 1..Len(scoreOut.results) :
         \E k \in 1..Len(scoreIn.items) :
           /\ scoreIn.items[k].link = scoreOut.results[i].url
           /\ scoreIn.items[k].title = scoreOut.results[i].headline
           /\ scoreIn.items[k].link # <<>>
           /\ scoreIn.items[k].title # <<>>

\* the input repeats a url and holds a candidate without a title, and the
\* scorer has returned a non-empty ranking
C9_Witness ==
  /\ Returned
  /\ Len(scoreOut.results) >= 1
  /\ \E i, j \in 1..Len(scoreIn.items) :
       i # j /\ scoreIn.items[i].link = scoreIn.items[j].link
             /\ scoreIn.items[i].link = scoreOut.results[1].url
  /\ \E i \in 1..Len(scoreIn.items) :
       scoreIn.items[i].title = <<>> /\ scoreIn.items[i].link # <<>>

\* C10: no entry of cleanAndScore's output has a url containing "/search?".
C10_NoSearchLinks ==
  Returned =>
    \A i \in 1..Len(scoreOut.results) :
      ~Includes(scoreOut.results[i].url, <<"/","s","e","a","r","c","h","?">>)

\* the input holds a search link whose headline scores, next to a candidate
\* that is kept
C10_Witness ==
  /\ Returned
  /\ Len(scoreOut.results) >= 1
  /\ \E i \in 1..Len(scoreIn.items) :
       /\ Includes(scoreIn.items[i].link, <<"/","s","e","a","r","c","h","?">>)
       /\ Score(HeadU(scoreIn.items[i]), up(scoreIn.row.symbol),
                up(scoreIn.row.name)) > 0

\* the raw candidate at place k passes the validity, search-link and dedup
\* steps: it has a link and a title, its link is no search link, and no
\* earlier candidate with a title and the same link was there
Survivor(items, k) ==
  /\ items[k].link # <<>>
  /\ items[k].title # <<>>
  /\ ~Includes(items[k].link, <<"/","s","e","a","r","c","h","?">>)
  /\ \A j \in 1..(k - 1) :
       items[j].link = items[k].link => items[j].title = <<>>

InOutput(url) ==
  \E i \in 1..Len(scoreOut.results) : scoreOut.results[i].url = url

\* C11: a candidate that passes the validity, search-link and dedup steps is
\* left out of the output exactly when it has a publish time more than
\* WINDOW_DAYS before now; 120 days is kept, and so is a candidate without
\* a publish time.
C11_RecencyWindow ==
  Returned =>
    \A k \in 1..Len(scoreIn.items) :
      Survivor(scoreIn.items, k) =>
        (~InOutput(scoreIn.items[k].link) <=>
           /\ scoreIn.items[k].pubDate.kind = "date"
           /\ Now - scoreIn.items[k].pubDate.t > 120)

\* one candidate of 121 days is left out, one of 119 days and one without a
\* publish time are kept
C11_Witness ==
  /\ Returned
  /\ \E a, b, c \in 1..Len(scoreIn.items) :
       /\ Survivor(scoreIn.items, a) /\ Survivor(scoreIn.items, b)
       /\ Survivor(scoreIn.items, c)
       /\ scoreIn.items[a].pubDate = DateAt(Now - 121)
       /\ ~InOutput(scoreIn.items[a].link)
       /\ scoreIn.items[b].pubDate = DateAt(Now - 119)
       /\ InOutput(scoreIn.items[b].link)
       /\ scoreIn.items[c].pubDate.kind = "absent"
       /\ InOutput(scoreIn.items[c].link)

\* the place of a url in the output, 0 when it is not there
PlaceOf(url) ==
  IF InOutput(url)
  THEN CHOOSE i \in 1..Len(scoreOut.results) : scoreOut.results[i].url = url
  ELSE 0

\* C12: the scores of the output never increase from first to last; of two
\* entries with the same score the one with the later publish time is first,
\* and one without a publish time is never before one that has a publish
\* time.
C12_RankOrder ==
  Returned =>
    \A i, j \in 1..Len(scoreOut.results) :
      i < j =>
        LET a == scoreOut.results[i]
            b == scoreOut.results[j]
        IN  /\ a.score >= b.score
            /\ (a.score = b.score /\ b.published_at # <<>>) =>
                 /\ a.published_at # <<>>
                 /\ a.published_at[1] >= b.published_at[1]

\* an undated candidate came before a dated one and an older one before a
\* newer one, all with the same score: the output turns both pairs around
C12_Witness ==
  /\ Returned
  /\ \E a, b, c \in 1..Len(scoreIn.items) :
       /\ a < b /\ b < c
       /\ scoreIn.items[a].pubDate.kind = "absent"
       /\ scoreIn.items[b].pubDate = DateAt(Now - 119)
       /\ scoreIn.items[c].pubDate = DateAt(Now - 1)
       /\ PlaceOf(scoreIn.items[c].link) = 1
       /\ PlaceOf(scoreIn.items[b].link) = 2
       /\ PlaceOf(scoreIn.items[a].link) = 3
       /\ scoreOut.results[1].score = scoreOut.results[3].score

\* the raw candidate an output entry is built from: the first one with this
\* link that has a title
SourceItem(url) ==
  scoreIn.items[CHOOSE k \in 1..Len(scoreIn.items) :
                  scoreIn.items[k].link = url /\ Survivor(scoreIn.items, k)]

Points(headU, word, pts) == IF Includes(headU, word) THEN pts ELSE 0

\* the score the claim gives a headline
ClaimedScore(headU, symU, nameU) ==
  LET tokens == Split(nameU)
  IN    Points(headU, symU, 6)
      + Points(headU, nameU, 8)
      + 3 * Cardinality({k \in 1..Len(tokens) :
                           Len(tokens[k]) > 3 /\ Includes(headU, tokens[k])})
      + Points(headU, <<"S","T","O","C","K">>, 5)
      + Points(headU, <<"S","H","A","R","E">>, 4)
      + Points(headU, <<"M","A","R","K","E","T">>, 3)
      + Points(headU, <<"N","S","E">>, 3)
      + (IF \/ Includes(headU, <<"E","A","R","N","I","N","G","S">>)
            \/ Includes(headU, <<"R","E","S","U","L","T">>)
            \/ Includes(headU, <<"Q","1">>) \/ Includes(headU, <<"Q","2">>)
            \/ Includes(headU, <<"Q","3">>) \/ Includes(headU, <<"Q","4">>)
            \/ Includes(headU, <<"R","E","V","E","N","U","E">>)
            \/ Includes(headU, <<"P","R","O","F","I","T">>)
         THEN 5 ELSE 0)

\* C13: the score of every output entry is the sum the claim lists, computed
\* on the uppercased title and snippet of the candidate it is built from,
\* with one 5 at most for the earnings group; it is an integer >= 0.
C13_ScoreFormula ==
  Returned =>
    \A i \in 1..Len(scoreOut.results) :
      /\ scoreOut.results[i].score \in Nat
      /\ scoreOut.results[i].score =
           ClaimedScore(HeadU(SourceItem(scoreOut.results[i].url)),
                        up(scoreIn.row.symbol), up(scoreIn.row.name))

\* for ticker TCS and name "Tata CS": "TCS Tata CS" scores 6 + 8 + 3,
\* "Q2 result profit" with snippet "nse share market" scores 5 + 3 + 4 + 3
\* (three earnings words, one 5), and "tcs stock" scores 6 + 5
C13_Witness ==
  /\ Returned
  /\ scoreIn.row = RowTCS
  /\ Len(scoreOut.results) = 3
  /\ scoreOut.results[1].score = 17 /\ scoreOut.results[1].headline = HeadTcsTataCs
  /\ scoreOut.results[2].score = 15 /\ scoreOut.results[2].headline = HeadQ2Result
  /\ scoreOut.results[3].score = 11 /\ scoreOut.results[3].headline = HeadTcsStock

KeyWords ==
  << <<"S","T","O","C","K">>, <<"S","H","A","R","E">>, <<"M","A","R","K","E","T">>,
     <<"N","S","E">>, <<"E","A","R","N","I","N","G","S">>, <<"R","E","S","U","L","T">>,
     <<"Q","1">>, <<"Q","2">>, <<"Q","3">>, <<"Q","4">>,
     <<"R","E","V","E","N","U","E">>, <<"P","R","O","F","I","T">> >>

\* the scoring signals a headline matches: the ticker, the name, the k-th
\* name token, the k-th keyword
SignalsOf(headU, symU, nameU) ==
  LET tokens == Split(nameU)
  IN  (IF Includes(headU, symU) THEN {<<"ticker", 0>>} ELSE {})
      \cup (IF Includes(headU, nameU) THEN {<<"name", 0>>} ELSE {})
      \cup {<<"token", k>> : k \in {k \in 1..Len(tokens) :
                                     Len(tokens[k]) > 3 /\ Includes(headU, tokens[k])}}
      \cup {<<"word", k>> : k \in {k \in 1..Len(KeyWords) : Includes(headU, KeyWords[k])}}

SignalsAt(i) ==
  SignalsOf(HeadU(SourceItem(scoreOut.results[i].url)),
            up(scoreIn.row.symbol), up(scoreIn.row.name))

\* C14: of two entries scored for the same ticker and name, one that matches
\* every signal the other matches has a score at least as high.
C14_ScoreMonotonic ==
  Returned =>
    \A i, j \in 1..Len(scoreOut.results) :
      \/ scoreOut.results[i].score >= scoreOut.results[j].score
      \/ ~(SignalsAt(j) \subseteq SignalsAt(i))

\* "TCS Tata CS" matches the name and its token as "Tata CS" does, and the
\* ticker besides: it scores more
C14_Witness ==
  /\ Returned
  /\ \E i, j \in 1..Len(scoreOut.results) :
       /\ scoreOut.results[i].headline = HeadTcsTataCs
       /\ scoreOut.results[j].headline = HeadTataCs
       /\ SignalsAt(j) \subseteq SignalsAt(i)
       /\ SignalsAt(i) \ SignalsAt(j) = {<<"ticker", 0>>}
       /\ SignalsAt(j) = {<<"name", 0>>, <<"token", 1>>}
       /\ scoreOut.results[i].score > scoreOut.results[j].score

\* C18: every output entry carries the title and the publish time of the
\* first candidate with its link that has a title; and when that first
\* candidate is older than 120 days the link is not in the output, whatever
\* later candidates with the same link look like.
C18_FirstOccurrenceWins ==
  Returned =>
    /\ \A i \in 1..Len(scoreOut.results) :
         LET it == SourceItem(scoreOut.results[i].url)
         IN  /\ scoreOut.results[i].headline = it.title
             /\ scoreOut.results[i].published_at =
                  (IF it.pubDate.kind = "date" THEN <<it.pubDate.t>> ELSE <<>>)
    /\ \A k \in 1..Len(scoreIn.items) :
         ( /\ Survivor(scoreIn.items, k)
           /\ scoreIn.items[k].pubDate.kind = "date"
           /\ Now - scoreIn.items[k].pubDate.t > 120 )
         => ~InOutput(scoreIn.items[k].link)

\* a stale candidate is followed by one with the same link inside the
\* window: the link is not in the output, and the ranking is not empty
C18_Witness ==
  /\ Returned
  /\ Len(scoreOut.results) >= 1
  /\ \E a, b \in 1..Len(scoreIn.items) :
       /\ a < b
       /\ Survivor(scoreIn.items, a)
       /\ scoreIn.items[a].link = scoreIn.items[b].link
       /\ scoreIn.items[b].title # <<>>
       /\ Now - scoreIn.items[a].pubDate.t > 120
       /\ scoreIn.items[a].pubDate.kind = "date"
       /\ scoreIn.items[b].pubDate.kind = "date"
       /\ Now - scoreIn.items[b].pubDate.t <= 120
       /\ ~InOutput(scoreIn.items[a].link)
====
